---- MODULE Spec2Model ----
\* Verification model of evgunter/keymap_optimization:
\*   - the prefix-code builder and vocabulary binder (twiddler.rs, get_code),
\*   - the trial decoder (twiddler.rs, parse_trial_string),
\*   - the alignment scorer (chord_preferences/logic.rs, align),
\*   - the data-collection session loop (chord_preferences/logic.rs, gather_data).
EXTENDS Integers, Sequences, FiniteSets, TLC

VARIABLES
    \* ---- configuration of the code builder (scaled instances of the constants)
    usb_hid_ranges,        \* USB_HID_RANGES: three half-open ranges <<lo, hi>>
    max_chords,            \* MAX_CHORDS
    max_multichar_chords,  \* MAX_MULTICHAR_CHORDS
    \* ---- get_code
    chord_sampler,         \* the chords the sampler given to get_code can return
    pc,                    \* position of the running function
    root,                  \* code tree: the set of codes of the nodes whose children are Some
    node_queue,            \* FIFO of code words
    multichar_count,
    current_node_str,
    idx,                   \* loop variable of `for idx in 0..USB_HID_COUNT`
    ok_strings,
    chords,                \* get_code: distinct chords drawn so far; gather_data: the displayed pair
    vocab,                 \* TwiddlerChordTrialUtils.vocab
    code_tree,             \* TwiddlerChordTrialUtils.code_tree
    \* ---- a trial typed on the keyboard, and its decoding
    pressed,               \* indices of the vocabulary entries pressed, in press order
    parse_out,             \* result of parse_trial_string
    typed_string,          \* the string given to parse_trial_string
    \* ---- align
    seq_predicted,
    seq_corrupted,
    nw_matrix,
    ai, aj,                \* the loop variables i, j of align
    align_out,             \* the (correct, incorrect) pair returned
    \* ---- gather_data / gather_and_save_data
    results,               \* TrialResults.data
    input_line,            \* the line the last read_line call returned
    input_at,              \* the prompt at which that line was read
    parsed_chords,
    stdin_eof,             \* standard input is exhausted
    returned,              \* value returned by gather_data
    file,                  \* contents of the results file
    shown,                 \* observation: the chord pairs displayed so far (first two kept)
    script,                \* observation: how far the input lines follow the scenario GO, typed, Y, IMP, QUIT
    \* ---- a single call of a function of the program
    arg,                   \* the argument it was called with
    ret                    \* the value it returned

codeVars  == <<usb_hid_ranges, max_chords, max_multichar_chords, chord_sampler, root, node_queue,
               multichar_count, current_node_str, idx, ok_strings, vocab, code_tree>>
trialVars == <<pressed, parse_out, typed_string>>
alignVars == <<seq_predicted, seq_corrupted, nw_matrix, ai, aj, align_out>>
sessVars  == <<results, input_line, input_at, parsed_chords, stdin_eof, returned, file,
               shown, script>>
callVars  == <<arg, ret>>
vars      == <<pc, chords, codeVars, trialVars, alignVars, sessVars, callVars>>

\* ------------------------------------------------------------------ bounds
MaxCap     == 4   \* the scaled MAX_CHORDS and MAX_MULTICHAR_CHORDS range over 1..MaxCap
MaxPresses == 2   \* chords pressed in one decoded trial
MaxLen     == 3   \* length of the sequences given to align
MaxCopies  == 2   \* extra copies of one typed element inserted next to it
MaxResults == 2   \* records a session accepts before it stops accepting more
MaxFairResults == 1   \* the same, in the session checked for termination
MaxTyped   == 2   \* characters of a trial string typed freely
MaxDeepCap == 8   \* caps of the code builder when it runs alone, past the one-character words

\* ------------------------------------------------------------------ helpers
Last(s)    == s[Len(s)]
Front(s)   == SubSeq(s, 1, Len(s) - 1)
Reverse(s) == [k \in 1..Len(s) |-> s[Len(s) + 1 - k]]
Range(s)   == {s[k] : k \in 1..Len(s)}
IsPrefix(a, b) == Len(a) <= Len(b) /\ SubSeq(b, 1, Len(a)) = a

RECURSIVE Concat(_)
Concat(ss) == IF ss = <<>> THEN <<>> ELSE Head(ss) \o Concat(Tail(ss))

Ok(v)  == [ok |-> TRUE, val |-> v]
Err(e) == [ok |-> FALSE, err |-> e]

\* ------------------------------------------------------------------ constants of twiddler.rs
MAX_CHORDS           == 1020
MAX_MULTICHAR_CHORDS == 256
USB_HID_RANGES       == << <<4, 40>>, <<45, 50>>, <<51, 57>> >>

\* Scaled alphabets: each range keeps its first code and is cut to at most one
\* code, so that a node has 2 or 4 children instead of 94.
ScaledRanges ==
    { << <<4, 4 + a>>, <<45, 45 + b>>, <<51, 51 + c>> >> :
        <<a, b, c>> \in { <<1, 0, 0>>, <<0, 0, 1>>, <<1, 1, 0>> } }

HALF_USB_HID_COUNT ==
    (usb_hid_ranges[1][2] - usb_hid_ranges[1][1])
  + (usb_hid_ranges[2][2] - usb_hid_ranges[2][1])
  + (usb_hid_ranges[3][2] - usb_hid_ranges[3][1])

USB_HID_COUNT == 2 * HALF_USB_HID_COUNT

\* ------------------------------------------------------------------ keys and chords
TwiddlerKey == << "Z0", "L0", "M0", "R0", "L1", "M1", "R1", "L2", "M2", "R2",
                  "L3", "M3", "R3", "L4", "M4", "R4" >>
TwiddlerKey_COUNT == 16

index(key) == CHOOSE k \in 1..Len(TwiddlerKey) : TwiddlerKey[k] = key
Chord_new == [k \in 1..TwiddlerKey_COUNT |-> FALSE]
add_key(chord, key) == [chord EXCEPT ![index(key)] = TRUE]
contains(chord, key) == chord[index(key)]

RECURSIVE chord_of(_)
chord_of(keys) == IF keys = <<>> THEN Chord_new
                  ELSE add_key(chord_of(Front(keys)), Last(keys))

\* The chords a sampler hands out in the model (all with a main-row key).
ChordPool == { chord_of(<<"L1">>), chord_of(<<"M1">>), chord_of(<<"Z0", "L1">>),
               chord_of(<<"L1", "M1">>), chord_of(<<"L0", "R2", "M3">>) }

\* ------------------------------------------------------------------ character-code table
\* Text of a HID code on the US layout (twidlk_rust::usb_hid_to_text(..).1).
TEXT_0 == << "a","b","c","d","e","f","g","h","i","j","k","l","m","n","o","p","q","r",
             "s","t","u","v","w","x","y","z","1","2","3","4","5","6","7","8","9","0" >>
TEXT_0_SHIFT == << "A","B","C","D","E","F","G","H","I","J","K","L","M","N","O","P","Q","R",
             "S","T","U","V","W","X","Y","Z","!","@","#","$","%","^","&","*","(",")" >>
TEXT_1 == << "-", "=", "[", "]", "\\" >>
TEXT_1_SHIFT == << "_", "+", "{", "}", "|" >>
\* (the grave accent and the double quote are spelled out: the lexer cannot read them)
TEXT_2 == << ";", "'", "grave", ",", ".", "/" >>
TEXT_2_SHIFT == << ":", "dq", "~", "<", ">", "?" >>

usb_hid_to_text(shifted, usb) ==
    IF usb \in 4..39 THEN (IF shifted THEN TEXT_0_SHIFT ELSE TEXT_0)[usb - 3]
    ELSE IF usb \in 45..49 THEN (IF shifted THEN TEXT_1_SHIFT ELSE TEXT_1)[usb - 44]
    ELSE IF usb \in 51..56 THEN (IF shifted THEN TEXT_2_SHIFT ELSE TEXT_2)[usb - 50]
    ELSE ""

\* twidlk_rust::unmap_char: the (shifted, usb) pair that prints the character.
unmap_char(c) ==
    LET hits == { su \in BOOLEAN \X ((4..39) \cup (45..49) \cup (51..56)) :
                    usb_hid_to_text(su[1], su[2]) = c }
    IN  IF hits = {} THEN Err("unmappable character")
        ELSE Ok(CHOOSE su \in hits : TRUE)

\* (mutant of idx_to_usb: the gap before the third range is left out)
idx_to_usb_gap(i) ==
    LET r        == usb_hid_ranges
        shifted  == (i \div HALF_USB_HID_COUNT) # 0
        base_idx == i % HALF_USB_HID_COUNT
    IN  Ok(<< shifted,
              IF base_idx < r[1][2] - r[1][1]
              THEN base_idx + r[1][1]
              ELSE base_idx + r[1][1] + r[2][1] - r[1][2] >>)

idx_to_usb(i) ==
    LET r        == usb_hid_ranges
        shifted  == (i \div HALF_USB_HID_COUNT) # 0
        base_idx == i % HALF_USB_HID_COUNT
    IN  Ok(<< shifted,
              IF base_idx < r[1][2] - r[1][1]
              THEN base_idx + r[1][1]
              ELSE IF base_idx < r[1][2] - r[1][1] + r[2][2] - r[2][1]
              THEN base_idx + r[1][1] + r[2][1] - r[1][2]
              ELSE base_idx + r[1][1] + r[2][1] - r[1][2] + r[3][1] - r[2][2] >>)

usb_to_idx(shifted, usb) ==
    LET r == usb_hid_ranges
        base_decoded ==
            IF usb >= r[1][1] /\ usb < r[1][2] THEN Ok(usb - r[1][1])
            ELSE IF usb >= r[2][1] /\ usb < r[2][2]
            THEN Ok(usb - (r[2][1] - r[1][2]) - r[1][1])
            ELSE IF usb >= r[3][1] /\ usb < r[3][2]
            THEN Ok(usb - (r[3][1] - r[2][2]) - (r[2][1] - r[1][2]) - r[1][1])
            ELSE Err("usb code out of range")
    IN  IF ~base_decoded.ok THEN base_decoded
        ELSE IF shifted THEN Ok(base_decoded.val + HALF_USB_HID_COUNT)
        ELSE Ok(base_decoded.val)

idx_to_string(i) ==
    LET su == idx_to_usb(i).val IN << usb_hid_to_text(su[1], su[2]) >>

\* A string is a sequence of one-character strings.
RECURSIVE idxs_to_string(_)
idxs_to_string(idxs) ==
    IF idxs = <<>> THEN <<>>
    ELSE idx_to_string(Head(idxs)) \o idxs_to_string(Tail(idxs))

\* ------------------------------------------------------------------ code tree (Node)
\* A node is named by its code (the child indices from the root); `tree` is the
\* set of codes of the nodes whose `children` is Some.  A node exists when every
\* proper prefix of its code has children.
None == [some |-> FALSE]
Some(v) == [some |-> TRUE, val |-> v]

has_children(tree, at) == at \in tree

RECURSIVE get_child_(_, _, _)
get_child_(tree, at, value) ==
    IF value = <<>> THEN Some(at)
    ELSE IF has_children(tree, at)
         THEN get_child_(tree, Append(at, Last(value)), Front(value))
         ELSE None

get_child(tree, value) == get_child_(tree, <<>>, Reverse(value))

\* (mutant of read_last_word_: the element popped at a leaf is not put back)
RECURSIVE read_last_word_drops(_, _, _, _)
read_last_word_drops(tree, at, out, value) ==
    IF value = <<>>
    THEN IF ~has_children(tree, at)
         THEN [ok |-> TRUE, out |-> out, value |-> value]
         ELSE Err("value string ended in the middle of a word")
    ELSE IF ~has_children(tree, at)
         THEN [ok |-> TRUE, out |-> out, value |-> Front(value)]
         ELSE read_last_word_drops(tree, Append(at, Last(value)),
                                   Append(out, Last(value)), Front(value))

\* removes the last word of value (a reversed list) and reads it into out
RECURSIVE read_last_word_(_, _, _, _)
read_last_word_(tree, at, out, value) ==
    IF value = <<>>
    THEN IF ~has_children(tree, at)
         THEN [ok |-> TRUE, out |-> out, value |-> value]
         ELSE Err("value string ended in the middle of a word")
    ELSE IF ~has_children(tree, at)
         THEN [ok |-> TRUE, out |-> out, value |-> value]   \* last is put back
         ELSE read_last_word_(tree, Append(at, Last(value)),
                              Append(out, Last(value)), Front(value))

\* (mutant of read_last_word: a value that ends inside a word is accepted)
read_last_word_lenient(tree, value) ==
    LET r == read_last_word_(tree, <<>>, <<>>, value)
    IN  IF r.ok THEN r ELSE [ok |-> TRUE, out |-> value, value |-> <<>>]

read_last_word(tree, value) == read_last_word_(tree, <<>>, <<>>, value)

\* ------------------------------------------------------------------ ChordTrialUtils
lookup_string(vcb, string) ==
    LET hits == { k \in 1..Len(vcb) : vcb[k][2] = string }
    IN  IF hits = {} THEN None
        ELSE Some(vcb[CHOOSE k \in hits : \A h \in hits : k <= h][1])

lookup_chord(vcb, chord) ==
    LET hits == { k \in 1..Len(vcb) : vcb[k][1] = chord }
    IN  IF hits = {} THEN None
        ELSE Some(vcb[CHOOSE k \in hits : \A h \in hits : k <= h][2])

\* the characters of the trial string as indices; the first failure is returned
RECURSIVE chars_to_idxs(_)
chars_to_idxs(str) ==
    IF str = <<>> THEN Ok(<<>>)
    ELSE LET su == unmap_char(Head(str)) IN
         IF ~su.ok THEN su
         ELSE LET i == usb_to_idx(su.val[1], su.val[2]) IN
              IF ~i.ok THEN i
              ELSE LET rest == chars_to_idxs(Tail(str)) IN
                   IF ~rest.ok THEN rest ELSE Ok(<<i.val>> \o rest.val)

\* `while trial_idxs.len() > 0 { words.push(read_last_word(..)?..) }`
\* A tree whose root is a leaf reads an empty word and consumes nothing, so the
\* loop of the program never ends; the model reports that case as "no progress".
RECURSIVE read_words(_, _, _)
read_words(tree, trial_idxs, words) ==
    IF Len(trial_idxs) = 0 THEN Ok(words)
    ELSE LET r == read_last_word(tree, trial_idxs) IN
         IF ~r.ok THEN r
         ELSE IF r.value = trial_idxs THEN Err("no progress")
         ELSE read_words(tree, r.value, Append(words, idxs_to_string(r.out)))

\* (mutant of words_to_chords: a word without a vocabulary entry is skipped)
RECURSIVE words_to_chords_skips(_, _)
words_to_chords_skips(vcb, words) ==
    IF words = <<>> THEN Some(<<>>)
    ELSE LET c    == lookup_string(vcb, Head(words))
             rest == words_to_chords_skips(vcb, Tail(words))
         IN  IF c.some THEN Some(<<c.val>> \o rest.val) ELSE rest

\* the words as chords; None as soon as one word has no vocabulary entry
RECURSIVE words_to_chords(_, _)
words_to_chords(vcb, words) ==
    IF words = <<>> THEN Some(<<>>)
    ELSE LET c    == lookup_string(vcb, Head(words))
             rest == words_to_chords(vcb, Tail(words))
         IN  IF c.some /\ rest.some THEN Some(<<c.val>> \o rest.val) ELSE None

parse_trial_string(tree, vcb, trial_string) ==
    LET trial_idxs == chars_to_idxs(trial_string) IN
    IF ~trial_idxs.ok THEN trial_idxs
    ELSE LET words == read_words(tree, Reverse(trial_idxs.val), <<>>) IN
         IF ~words.ok THEN words
         ELSE LET result == words_to_chords(vcb, words.val) IN
              IF result.some THEN Ok(result.val)
              ELSE Err("could not find chord for word")

\* ------------------------------------------------------------------ get_code
\* (mutant of stopping_condition: the caps are compared with > instead of >=)
stopping_condition_late(size, multichar) ==
    size > max_chords \/ multichar > max_multichar_chords

\* the stopping conditions of the expansion loop
stopping_condition(size, multichar) ==
    size >= max_chords \/ multichar >= max_multichar_chords

\* `node_queue.remove()`, the tree lookup, the multichar adjustment, the new children
Dequeue ==
    /\ pc = "create_strings"
    /\ IF node_queue = <<>> \/ ~get_child(root, Head(node_queue)).some
          \/ (Len(Head(node_queue)) > 1 /\ multichar_count = 0)
       THEN /\ pc' = "panic"
            /\ UNCHANGED <<callVars, root, node_queue, multichar_count, current_node_str, idx>>
       ELSE /\ current_node_str' = Head(node_queue)
            /\ node_queue' = Tail(node_queue)
            /\ multichar_count' = IF Len(Head(node_queue)) > 1
                                  THEN multichar_count - 1 ELSE multichar_count
            /\ root' = root \cup {Head(node_queue)}
            /\ idx' = 0
            /\ pc' = "for_idx"
    /\ UNCHANGED <<callVars, usb_hid_ranges, max_chords, max_multichar_chords, chord_sampler, ok_strings, vocab,
                   code_tree, chords, trialVars, alignVars, sessVars>>

\* (mutant of new_node_str: the child index is put in front of the word)
new_node_str_front(str, i) == <<i>> \o str

\* (mutant of new_node_str: the child index is not used)
new_node_str_same(str, i) == Append(str, 0)

new_node_str(str, i) == Append(str, i)

\* (mutant of new_multichar_count: the children of the root are counted too)
new_multichar_count_all(str, count) == count + 1

\* (mutant of new_multichar_count: a new word of two or more characters is not counted)
new_multichar_count_none(str, count) == count

new_multichar_count(str, count) == IF Len(str) > 0 THEN count + 1 ELSE count

\* one iteration of `for idx in 0..USB_HID_COUNT`
AddChild ==
    /\ pc = "for_idx"
    /\ node_queue' = Append(node_queue, new_node_str(current_node_str, idx))
    /\ multichar_count' = new_multichar_count(current_node_str, multichar_count)
    /\ IF stopping_condition(Len(node_queue'), multichar_count')
       THEN pc' = "halted" /\ idx' = idx
       ELSE IF idx + 1 < USB_HID_COUNT
            THEN pc' = "for_idx" /\ idx' = idx + 1
            ELSE pc' = "create_strings" /\ idx' = idx
    /\ UNCHANGED <<callVars, usb_hid_ranges, max_chords, max_multichar_chords, chord_sampler, root,
                   current_node_str, ok_strings, vocab, code_tree, chords,
                   trialVars, alignVars, sessVars>>

\* queue_to_vec and the conversion of every code word to its string
QueueToVec ==
    /\ pc = "halted"
    /\ ok_strings' = [k \in 1..Len(node_queue) |-> idxs_to_string(node_queue[k])]
    /\ node_queue' = <<>>
    /\ chords' = <<>>
    /\ pc' = "sample"
    /\ UNCHANGED <<callVars, usb_hid_ranges, max_chords, max_multichar_chords, chord_sampler, root,
                   multichar_count, current_node_str, idx, vocab, code_tree,
                   trialVars, alignVars, sessVars>>

\* (mutant of push_if_new: the chord is pushed without the contains test)
push_always(cs, chord) == Append(cs, chord)

push_if_new(cs, chord) == IF chord \in Range(cs) THEN cs ELSE Append(cs, chord)

\* one iteration of `while chords.len() < ok_strings.len()`
SampleChord ==
    /\ pc = "sample"
    /\ Len(chords) < Len(ok_strings)
    /\ \E chord \in chord_sampler : chords' = push_if_new(chords, chord)
    /\ UNCHANGED <<callVars, pc, codeVars, trialVars, alignVars, sessVars>>

zip(cs, strs) ==
    [k \in 1..(IF Len(cs) < Len(strs) THEN Len(cs) ELSE Len(strs)) |-> <<cs[k], strs[k]>>]

\* `chords.into_iter().zip(ok_strings).collect()`, and TwiddlerChordTrialUtils::new
ReturnCode ==
    /\ pc = "sample"
    /\ ~(Len(chords) < Len(ok_strings))
    /\ vocab' = zip(chords, ok_strings)
    /\ code_tree' = root
    /\ pc' = "built"
    /\ UNCHANGED <<callVars, usb_hid_ranges, max_chords, max_multichar_chords, chord_sampler, root, node_queue,
                   multichar_count, current_node_str, idx, ok_strings, chords,
                   trialVars, alignVars, sessVars>>

\* ------------------------------------------------------------------ a trial on the keyboard
\* the keyboard prints the string bound to each chord pressed
trial_string_of(vcb, presses) == Concat([k \in 1..Len(presses) |-> vcb[presses[k]][2]])

Press ==
    /\ pc = "built"
    /\ Len(pressed) < MaxPresses
    /\ \E e \in 1..Len(vocab) : pressed' = Append(pressed, e)
    /\ UNCHANGED <<callVars, pc, chords, codeVars, parse_out, typed_string, alignVars, sessVars>>

Parse ==
    /\ pc = "built"
    /\ typed_string' = trial_string_of(vocab, pressed)
    /\ parse_out' = parse_trial_string(code_tree, vocab, typed_string')
    /\ pc' = "parsed"
    /\ UNCHANGED <<callVars, chords, codeVars, pressed, alignVars, sessVars>>

\* ------------------------------------------------------------------ specification of the code builder and decoder
NoCall    == /\ arg = None /\ ret = None
NoTrial   == /\ pressed = <<>> /\ parse_out = None /\ typed_string = <<>>
NoAlign   == /\ seq_predicted = <<>> /\ seq_corrupted = <<>> /\ nw_matrix = <<>>
             /\ ai = 0 /\ aj = 0 /\ align_out = None
NoSession == /\ results = <<>> /\ input_line = None /\ input_at = "none"
             /\ parsed_chords = <<>>
             /\ stdin_eof = FALSE /\ returned = None /\ file = None
             /\ shown = <<>> /\ script = [n |-> 0, typed |-> None]

InitCode ==
    /\ pc = "create_strings"
    /\ root = {}
    /\ node_queue = << <<>> >>
    /\ multichar_count = 0
    /\ current_node_str = <<>>
    /\ idx = 0
    /\ ok_strings = <<>>
    /\ chords = <<>>
    /\ vocab = <<>>
    /\ code_tree = {}

Init ==
    /\ usb_hid_ranges \in ScaledRanges
    /\ max_chords \in 1..MaxCap
    /\ max_multichar_chords \in 1..MaxCap
    /\ chord_sampler = ChordPool
    /\ InitCode /\ NoTrial /\ NoAlign /\ NoSession /\ NoCall

Next == Dequeue \/ AddChild \/ QueueToVec \/ SampleChord \/ ReturnCode \/ Press \/ Parse

Spec == Init /\ [][Next]_vars

\* ------------------------------------------------------------------ decoding of arbitrary typed strings
\* The characters a trial string is typed from: every character of the code's
\* alphabet and a character of the table outside the scaled ranges.
TypedChars ==
    { idx_to_string(i)[1] : i \in 0..(USB_HID_COUNT - 1) } \cup {"z"}

TypedStrings == UNION { [1..n -> TypedChars] : n \in 0..MaxTyped }

\* parse_trial_string on any string the keyboard (or another device) can send
ParseTyped ==
    /\ pc = "built"
    /\ \E s \in TypedStrings :
         /\ typed_string' = s
         /\ parse_out' = parse_trial_string(code_tree, vocab, s)
    /\ pc' = "parsed"
    /\ UNCHANGED <<callVars, chords, codeVars, pressed, alignVars, sessVars>>

NextDecode == Dequeue \/ AddChild \/ QueueToVec \/ SampleChord \/ ReturnCode \/ ParseTyped

SpecDecode == Init /\ [][NextDecode]_vars

\* ------------------------------------------------------------------ align (logic.rs)
COUNT_MULTIPLE_INSERTIONS_ONCE == TRUE

u8(x) == x % 256

\* the elements of the sequences aligned in the model
Elems == {1, 2, 3}
SeqsUpTo(n) == UNION { [1..k -> Elems] : k \in 0..n }

Cells(P, Q) == (0..Len(P)) \X (0..Len(Q))

\* the condition under which a horizontal step into column j is not counted
\* (seq_corrupted[j - 2] == seq_corrupted[j - 1] with 0-based indices)
collapse(Q, j) ==
    1 < j /\ j < Len(Q) /\ COUNT_MULTIPLE_INSERTIONS_ONCE /\ Q[j - 1] = Q[j]

update_if_better(cd, c) ==
    IF \E o \in cd : o[1] = c[1]
    THEN LET o == CHOOSE o \in cd : o[1] = c[1]
         IN  IF c[2] < o[2] THEN (cd \ {o}) \cup {c} ELSE cd
    ELSE cd \cup {c}

\* `for (nc, ni, _) in &cell { update_if_better(..) }`; a cell holds one entry per nc
RECURSIVE update_all(_, _)
update_all(cd, cands) ==
    IF cands = {} THEN cd
    ELSE LET c == CHOOSE x \in cands : TRUE
         IN  update_all(update_if_better(cd, c), cands \ {c})

first_row_cell(Q, mat, j) ==
    IF collapse(Q, j)
    THEN { <<0, c[2], "Horz">> : c \in mat[<<0, j - 1>>] }
    ELSE { <<0, u8(j), "Horz">> }

first_column_cell(i) == { <<0, u8(i), "Vert">> }

\* (mutant of match_cell: an aligned pair is counted as incorrect)
match_cell_miscounted(mat, i, j) ==
    { <<c[1], u8(c[2] + 1), "Diag">> : c \in mat[<<i - 1, j - 1>>] }

match_cell(mat, i, j) ==
    { <<u8(c[1] + 1), c[2], "Diag">> : c \in mat[<<i - 1, j - 1>>] }

\* (mutant of horz_step: no horizontal step is counted)
horz_step_free(Q, j, c) == <<c[1], c[2], "Horz">>

horz_step(Q, j, c) ==
    IF collapse(Q, j) THEN <<c[1], c[2], "Horz">> ELSE <<c[1], u8(c[2] + 1), "Horz">>

\* (mutant of mismatch_cell: two different elements are never set against each other)
mismatch_cell_nodiag(Q, mat, i, j) ==
    LET vert == { <<c[1], u8(c[2] + 1), "Vert">> : c \in mat[<<i - 1, j>>] }
        horz == { horz_step(Q, j, c) : c \in mat[<<i, j - 1>>] }
    IN  update_all(update_all({}, vert), horz)

mismatch_cell(Q, mat, i, j) ==
    LET vert == { <<c[1], u8(c[2] + 1), "Vert">> : c \in mat[<<i - 1, j>>] }
        horz == { horz_step(Q, j, c) : c \in mat[<<i, j - 1>>] }
        diag == { <<c[1], u8(c[2] + 1), "Diag">> : c \in mat[<<i - 1, j - 1>>] }
    IN  update_all(update_all(update_all({}, vert), horz), diag)

\* the body of the two nested loops for one (i, j)
nw_cell(P, Q, mat, i, j) ==
    IF i = 0 THEN first_row_cell(Q, mat, j)
    ELSE IF j = 0 THEN first_column_cell(i)
    ELSE IF P[i] = Q[j] THEN match_cell(mat, i, j)
    ELSE mismatch_cell(Q, mat, i, j)

\* best_candidate: the candidates of greatest nc / (nc + ni).  max_by keeps the
\* last of several greatest elements, and the order of a cell filled from a
\* HashMap is arbitrary, so any of them can be the one returned.
ratio_le(a, b) == a[1] * u8(b[1] + b[2]) <= b[1] * u8(a[1] + a[2])

best_candidate(candidates) ==
    { b \in candidates : \A a \in candidates : ratio_le(a, b) }

\* the whole matrix, filled in the order of the loops
RECURSIVE nw_fill(_, _, _, _, _)
nw_fill(P, Q, mat, i, j) ==
    IF i > Len(P) THEN mat
    ELSE LET filled == [mat EXCEPT ![<<i, j>>] = nw_cell(P, Q, mat, i, j)]
         IN  IF j < Len(Q) THEN nw_fill(P, Q, filled, i, j + 1)
             ELSE nw_fill(P, Q, filled, i + 1, 0)

empty_matrix(P, Q) == [c \in Cells(P, Q) |-> {}]

\* the (correct, incorrect) pairs align can return
align(P, Q) ==
    LET mat == nw_fill(P, Q, empty_matrix(P, Q), 0, 0)
    IN  { <<b[1], b[2]>> : b \in best_candidate(mat[<<Len(P), Len(Q)>>]) }

AlignCell ==
    /\ pc = "align_loop"
    /\ ai <= Len(seq_predicted)
    /\ nw_matrix' = [nw_matrix EXCEPT
                       ![<<ai, aj>>] = nw_cell(seq_predicted, seq_corrupted, nw_matrix, ai, aj)]
    /\ IF aj < Len(seq_corrupted)
       THEN ai' = ai /\ aj' = aj + 1
       ELSE ai' = ai + 1 /\ aj' = 0
    /\ UNCHANGED <<callVars, pc, chords, codeVars, trialVars, seq_predicted, seq_corrupted,
                   align_out, sessVars>>

AlignReturn ==
    /\ pc = "align_loop"
    /\ ai > Len(seq_predicted)
    /\ \E b \in best_candidate(nw_matrix[<<Len(seq_predicted), Len(seq_corrupted)>>]) :
          align_out' = <<b[1], b[2]>>
    /\ pc' = "align_done"
    /\ UNCHANGED <<callVars, chords, codeVars, trialVars, seq_predicted, seq_corrupted,
                   nw_matrix, ai, aj, sessVars>>

NoCode ==
    /\ usb_hid_ranges = USB_HID_RANGES
    /\ max_chords = MAX_CHORDS
    /\ max_multichar_chords = MAX_MULTICHAR_CHORDS
    /\ chord_sampler = {}
    /\ root = {} /\ node_queue = <<>> /\ multichar_count = 0
    /\ current_node_str = <<>> /\ idx = 0 /\ ok_strings = <<>>
    /\ chords = <<>> /\ vocab = <<>> /\ code_tree = {}

InitAlign ==
    /\ pc = "align_loop"
    /\ seq_predicted \in SeqsUpTo(MaxLen)
    /\ seq_corrupted \in SeqsUpTo(MaxLen)
    /\ nw_matrix = empty_matrix(seq_predicted, seq_corrupted)
    /\ ai = 0 /\ aj = 0
    /\ align_out = None
    /\ NoCode /\ NoTrial /\ NoSession /\ NoCall

NextAlign == AlignCell \/ AlignReturn

SpecAlign == InitAlign /\ [][NextAlign]_vars

\* ------------------------------------------------------------------ gather_data (logic.rs)
N_REPETITIONS_PER_TRIAL == 5

\* A line returned by read_line: its characters without the final newline, and
\* whether it ended with a newline.  End of input is the empty line without one.
Line(text, nl) == [text |-> text, nl |-> nl]
EndOfInput == Line(<<>>, FALSE)

GO   == Line(<<"G", "O">>, TRUE)
IMP  == Line(<<"I", "M", "P">>, TRUE)
SKIP == Line(<<"S", "K", "I", "P">>, TRUE)
QUIT == Line(<<"Q", "U", "I", "T">>, TRUE)
YES  == Line(<<"Y">>, TRUE)
NO   == Line(<<"N">>, TRUE)

\* The session of the model runs on the alphabet {a, A} with the vocabulary
\* {"A", "aa"}; "aA" is a leaf of the code tree that is bound to no chord.
SessionRanges == << <<4, 5>>, <<45, 45>>, <<51, 51>> >>
SessionSampler == { chord_of(<<"L1">>), chord_of(<<"Z0", "M1">>) }

\* The lines standard input can deliver: the commands, typed trials (two that
\* decode, one that stops inside a word, one unbound word, one character
\* outside the ranges, one character no key prints), the empty line, and lines
\* cut short by the end of input.
StdinLines ==
    { GO, IMP, SKIP, QUIT, YES, NO,
      Line(<<"a", "a">>, TRUE), Line(<<"A">>, TRUE), Line(<<"a">>, TRUE),
      Line(<<"a", "A">>, TRUE), Line(<<"#">>, TRUE), Line(<<" ">>, TRUE),
      Line(<<"Q", "U", "I", "T">>, FALSE), Line(<<"A", "a">>, FALSE), EndOfInput }

\* (mutant of Readable: lines keep arriving after the end of input was read)
Readable_unending == StdinLines

\* what read_line can return now
Readable == IF stdin_eof THEN {EndOfInput} ELSE StdinLines

\* `&trial_input[0..trial_input.len() - 1]`: the line without its last character
strip_last(line) == IF line.nl THEN line.text ELSE Front(line.text)

\* the subtraction underflows on the empty string
slice_panics(line) == ~line.nl /\ line.text = <<>>

impossible_trial(pair) ==
    [chord_pair |-> pair, n_repetitions |-> N_REPETITIONS_PER_TRIAL,
     input |-> Err("Impossible")]

\* (mutant of ok_trial: the chords expected are recorded instead of the chords typed)
ok_trial_expected(pair, parsed) ==
    [chord_pair |-> pair, n_repetitions |-> N_REPETITIONS_PER_TRIAL,
     input |-> Ok([k \in 1..(2 * N_REPETITIONS_PER_TRIAL) |-> pair[((k - 1) % 2) + 1]])]

ok_trial(pair, parsed) ==
    [chord_pair |-> pair, n_repetitions |-> N_REPETITIONS_PER_TRIAL,
     input |-> Ok(parsed)]

\* (mutant of push: the record is put in front)
push_front(data, trial_data) == <<trial_data>> \o data

\* TrialResults::push
push(data, trial_data) == Append(data, trial_data)

\* (mutant of after_trial_pc: a decoding error leaves the trial loop)
after_trial_pc_breaks(parsed) == IF parsed.ok THEN "Accept" ELSE "PromptPair"

\* where the loop goes after the typed line was parsed
after_trial_pc(parsed) == IF parsed.ok THEN "Accept" ELSE "AwaitCommand"

\* serde's rendering of Chord, TrialData and TrialResults
chord_json(chord) == [keys |-> chord]

trial_json(t) ==
    [chord_pair    |-> <<chord_json(t.chord_pair[1]), chord_json(t.chord_pair[2])>>,
     n_repetitions |-> t.n_repetitions,
     input         |-> IF t.input.ok
                       THEN [Ok |-> [k \in 1..Len(t.input.val) |-> chord_json(t.input.val[k])]]
                       ELSE [Err |-> t.input.err]]

\* (mutant of to_json: the last record is left out)
to_json_short(data) == [data |-> [k \in 1..(Len(data) - 1) |-> trial_json(data[k])]]

to_json(data) == [data |-> [k \in 1..Len(data) |-> trial_json(data[k])]]

\* ---- observation of the input: how far the lines read follow GO, typed, Y, IMP, QUIT
follows(line, at, parsed) ==
    \/ script.n = 0 /\ at = "AwaitCommand" /\ line = GO
    \/ script.n = 1 /\ at = "Timing" /\ parsed.ok
    \/ script.n = 2 /\ at = "Accept" /\ line = YES
    \/ script.n = 3 /\ at = "AwaitCommand" /\ line = IMP
    \/ script.n = 4 /\ at = "AwaitCommand" /\ line = QUIT

observe(line, at, parsed) ==
    IF script.n >= 0 /\ follows(line, at, parsed)
    THEN /\ script' = [n |-> script.n + 1,
                       typed |-> IF at = "Timing" THEN Some(line) ELSE script.typed]
         /\ shown' = shown
    ELSE /\ script' = [n |-> -1, typed |-> None]
         /\ shown' = <<>>

\* the session starts on the vocabulary and code tree that get_code built
StartSession ==
    /\ pc = "built"
    /\ pc' = "PromptPair"
    /\ results' = <<>>
    /\ UNCHANGED <<callVars, chords, codeVars, trialVars, alignVars, input_line, input_at,
                   parsed_chords, stdin_eof, returned, file, shown, script>>

\* two chords of the vocabulary are chosen and displayed
PromptPair ==
    /\ pc = "PromptPair"
    /\ IF vocab = <<>>
       THEN pc' = "panic" /\ UNCHANGED <<callVars, chords, shown>>
       ELSE /\ \E a, b \in 1..Len(vocab) : chords' = <<vocab[a][1], vocab[b][1]>>
            /\ shown' = IF script.n >= 0 /\ Len(shown) < 2 THEN Append(shown, chords') ELSE shown
            /\ pc' = "AwaitCommand"
    /\ UNCHANGED <<callVars, codeVars, trialVars, alignVars, results, input_line, input_at,
                   parsed_chords, stdin_eof, returned, file, script>>

\* read_line fails: `?` returns the error from gather_data and from gather_and_save_data
ReadFails ==
    /\ pc \in {"AwaitCommand", "Timing", "Accept"}
    /\ pc' = "io_error"
    /\ script' = [n |-> -1, typed |-> None]
    /\ shown' = <<>>
    /\ UNCHANGED <<callVars, chords, codeVars, trialVars, alignVars, results, input_line,
                   input_at, parsed_chords, stdin_eof, returned, file>>

\* the command prompt: one line is read and dispatched
ReadCommand ==
    /\ pc = "AwaitCommand"
    /\ \E line \in Readable :
        /\ input_line' = line
        /\ input_at' = pc
        /\ stdin_eof' = (stdin_eof \/ ~line.nl)
        /\ observe(line, "AwaitCommand", None)
        /\ IF line = GO
           THEN pc' = "Timing" /\ UNCHANGED <<callVars, results, returned>>
           ELSE IF line = SKIP
           THEN pc' = "PromptPair" /\ UNCHANGED <<callVars, results, returned>>
           ELSE IF line = IMP
           THEN /\ Len(results) < MaxResults
                /\ results' = push(results, impossible_trial(chords))
                /\ pc' = "PromptPair"
                /\ UNCHANGED returned
           ELSE IF line = QUIT
           THEN /\ returned' = Ok(results)
                /\ pc' = "Terminate"
                /\ UNCHANGED results
           ELSE pc' = "AwaitCommand" /\ UNCHANGED <<callVars, results, returned>>
    /\ UNCHANGED <<callVars, chords, codeVars, trialVars, alignVars, parsed_chords, file>>

\* the typed trial: one line is read, its last character removed, the rest parsed
ReadTrial ==
    /\ pc = "Timing"
    /\ \E line \in Readable :
        /\ input_line' = line
        /\ input_at' = pc
        /\ stdin_eof' = (stdin_eof \/ ~line.nl)
        /\ IF slice_panics(line)
           THEN /\ pc' = "panic"
                /\ observe(line, "Timing", Err("panic"))
                /\ UNCHANGED parsed_chords
           ELSE LET parsed == parse_trial_string(code_tree, vocab, strip_last(line))
                IN  /\ pc' = after_trial_pc(parsed)
                    /\ parsed_chords' = IF parsed.ok THEN parsed.val ELSE parsed_chords
                    /\ observe(line, "Timing", parsed)
    /\ UNCHANGED <<callVars, chords, codeVars, trialVars, alignVars, results, returned, file>>

\* the acceptance prompt
ReadAccept ==
    /\ pc = "Accept"
    /\ \E line \in Readable :
        /\ input_line' = line
        /\ input_at' = pc
        /\ stdin_eof' = (stdin_eof \/ ~line.nl)
        /\ observe(line, "Accept", None)
        /\ IF line = YES
           THEN /\ Len(results) < MaxResults
                /\ results' = push(results, ok_trial(chords, parsed_chords))
                /\ parsed_chords' = <<>>        \* moved into the record
                /\ pc' = "PromptPair"
           ELSE IF line = NO
           THEN pc' = "AwaitCommand" /\ parsed_chords' = <<>> /\ UNCHANGED results
           ELSE pc' = "Accept" /\ UNCHANGED <<callVars, results, parsed_chords>>
    /\ UNCHANGED <<callVars, chords, codeVars, trialVars, alignVars, returned, file>>

\* gather_and_save_data: `results.save(&results_path)?` on the value gather_data returned
Save ==
    /\ pc = "Terminate"
    /\ \/ file' = Some(to_json(returned.val)) /\ pc' = "saved"
       \/ file' = file /\ pc' = "save_error"          \* File::create fails
       \/ file' = Some([partial |-> TRUE]) /\ pc' = "save_error"   \* the write fails
    /\ UNCHANGED <<callVars, chords, codeVars, trialVars, alignVars, results, input_line,
                   input_at, parsed_chords, stdin_eof, returned, shown, script>>

InitSession ==
    /\ usb_hid_ranges = SessionRanges
    /\ max_chords = 4
    /\ max_multichar_chords = 1
    /\ chord_sampler = SessionSampler
    /\ InitCode /\ NoTrial /\ NoAlign /\ NoSession /\ NoCall

NextSession ==
    \/ Dequeue \/ AddChild \/ QueueToVec \/ SampleChord \/ ReturnCode
    \/ StartSession \/ PromptPair \/ ReadFails \/ ReadCommand \/ ReadTrial \/ ReadAccept
    \/ Save

SpecSession == InitSession /\ [][NextSession]_vars

\* The steps the program takes by itself: every step but the failure of a read.
\* A read returns (with a line, or empty at the end of input), so the program
\* does not stay in front of an enabled step forever.
\* The two reads that can push a record, in a session of at most
\* MaxFairResults records.
ReadCommandCapped == ReadCommand /\ Len(results') <= MaxFairResults

ReadAcceptCapped == ReadAccept /\ Len(results') <= MaxFairResults

ProgramStep ==
    \/ Dequeue \/ AddChild \/ QueueToVec \/ SampleChord \/ ReturnCode
    \/ StartSession \/ PromptPair \/ ReadCommandCapped \/ ReadTrial
    \/ ReadAcceptCapped \/ Save

NextSessionFair == ProgramStep \/ ReadFails

SpecSessionFair == InitSession /\ [][NextSessionFair]_vars /\ WF_vars(ProgramStep)

\* ------------------------------------------------------------------ single calls of the pure functions
\* type Usb = u8
Usb == 0..255

\* nothing of get_code, parse_trial_string, align or gather_data has run
Idle ==
    /\ max_chords = MAX_CHORDS
    /\ max_multichar_chords = MAX_MULTICHAR_CHORDS
    /\ chord_sampler = {}
    /\ root = {} /\ node_queue = <<>> /\ multichar_count = 0
    /\ current_node_str = <<>> /\ idx = 0 /\ ok_strings = <<>>
    /\ chords = <<>> /\ vocab = <<>> /\ code_tree = {}
    /\ NoTrial /\ NoAlign /\ NoSession /\ NoCall

CallIdxToUsb ==
    /\ pc = "call"
    /\ \E i \in 0..(USB_HID_COUNT - 1) : arg' = i /\ ret' = idx_to_usb(i)
    /\ pc' = "idx_to_usb"
    /\ UNCHANGED <<chords, codeVars, trialVars, alignVars, sessVars>>

CallUsbToIdx ==
    /\ pc = "call"
    /\ \E shifted \in BOOLEAN, usb \in Usb :
         arg' = <<shifted, usb>> /\ ret' = usb_to_idx(shifted, usb)
    /\ pc' = "usb_to_idx"
    /\ UNCHANGED <<chords, codeVars, trialVars, alignVars, sessVars>>

\* `Node::usb_to_idx(shifted, usb)` on the pair idx_to_usb returned
BackToIdx ==
    /\ pc = "idx_to_usb"
    /\ ret' = usb_to_idx(ret.val[1], ret.val[2])
    /\ pc' = "idx_round_trip"
    /\ UNCHANGED <<arg, chords, codeVars, trialVars, alignVars, sessVars>>

\* `Node::idx_to_usb(idx)` on the index usb_to_idx returned
BackToUsb ==
    /\ pc = "usb_to_idx"
    /\ ret.ok
    /\ ret' = idx_to_usb(ret.val)
    /\ pc' = "usb_round_trip"
    /\ UNCHANGED <<arg, chords, codeVars, trialVars, alignVars, sessVars>>

InitUsb ==
    /\ pc = "call"
    /\ usb_hid_ranges \in {USB_HID_RANGES} \cup ScaledRanges
    /\ Idle

NextUsb == CallIdxToUsb \/ CallUsbToIdx \/ BackToIdx \/ BackToUsb

SpecUsb == InitUsb /\ [][NextUsb]_vars

\* ------------------------------------------------------------------ TwiddlerLayout::is_valid
THUMB == << "Z0", "L0", "M0", "R0" >>

MAIN == << <<"L1", "M1", "R1">>, <<"L2", "M2", "R2">>,
           <<"L3", "M3", "R3">>, <<"L4", "M4", "R4">> >>

RESERVED == << <<"Z0", "R0", "R1">>, <<"Z0", "R0", "R2">>, <<"Z0", "R0", "R3">>,
               <<"Z0", "R0", "R4">>, <<"Z0", "R0", "M1">>, <<"Z0", "R0", "M2">>,
               <<"Z0", "R0", "M3">>, <<"Z0", "R0", "M4">> >>

\* (mutant of is_valid: a chord that holds all keys of a reserved chord is refused)
is_valid_subset(chord) ==
    IF ~(\E k \in Range(Concat(MAIN)) : contains(chord, k)) THEN FALSE
    ELSE \A r \in 1..Len(RESERVED) :
            ~(\A k \in Range(RESERVED[r]) : contains(chord, k))

is_valid(chord) ==
    IF ~(\E k \in Range(Concat(MAIN)) : contains(chord, k)) THEN FALSE
    ELSE \A r \in 1..Len(RESERVED) : chord_of(RESERVED[r]) # chord

\* every value of TwiddlerChord: `keys: [bool; N]`
TwiddlerChord == [1..TwiddlerKey_COUNT -> BOOLEAN]

CallIsValid ==
    /\ pc = "call"
    /\ \E chord \in TwiddlerChord : arg' = chord /\ ret' = is_valid(chord)
    /\ pc' = "is_valid"
    /\ UNCHANGED <<chords, codeVars, trialVars, alignVars, sessVars>>

InitValid ==
    /\ pc = "call"
    /\ usb_hid_ranges = USB_HID_RANGES
    /\ Idle

NextValid == CallIsValid

SpecValid == InitValid /\ [][NextValid]_vars

\* ------------------------------------------------------------------ samplers built on a generator
\* The bound of the seeds a sampler's generator is constructed from.
MaxSeed == 2

\* A generator `R: rand::Rng` is a state; every draw reads the state and moves it on.
\* (a small generator: thirteen states on one cycle)
RngStates == 0..12
rng_step(r) == <<7, 3, 11, 10, 9, 0, 8, 2, 5, 1, 6, 12, 4>>[r + 1]

\* `rng.gen::<f64>() < p`, with p given in tenths
gen_f64_below(r, tenths) == 10 * r < 13 * tenths

\* `rng.gen_range(0..n)`
gen_range(r, n) == (r * n) \div 13

\* `K::gen_random(rng)`
gen_random(r) == TwiddlerKey[gen_range(r, TwiddlerKey_COUNT) + 1]

\* the loop of random_chord_: <<chord, generator after the draws>>
RECURSIVE more_keys(_, _, _)
more_keys(chord, r, tenths) ==
    IF gen_f64_below(r, tenths)
    THEN more_keys(add_key(chord, gen_random(rng_step(r))), rng_step(rng_step(r)), tenths)
    ELSE <<chord, rng_step(r)>>

random_chord_(r, tenths) ==
    more_keys(add_key(Chord_new, gen_random(r)), rng_step(r), tenths)

CHORD_KEY_SAMPLE_THRESHOLD == 6   \* 0.6, in tenths

\* TwiddlerExponentialSampler::sample_chord: <<chord, generator after the draws>>
RECURSIVE exponential_sample_chord(_)
exponential_sample_chord(r) ==
    LET attempted == random_chord_(r, CHORD_KEY_SAMPLE_THRESHOLD) IN
    IF is_valid(attempted[1]) THEN attempted
    ELSE exponential_sample_chord(attempted[2])

\* The list the two samplers of chord_samplers.rs are constructed with: chords
\* with the estimated probability (in tenths) that they are possible, sorted.
chords_with_possible_probs ==
    << <<chord_of(<<"L0", "R2", "M3">>), 2>>, <<chord_of(<<"Z0", "L1">>), 4>>,
       <<chord_of(<<"M1">>), 6>>, <<chord_of(<<"L1">>), 9>> >>

\* PossibleChordSampler::sample_chord: the candidate is chosen with
\* rand::thread_rng(), any entry of the list; the acceptance draw is made from
\* the sampler's generator. The set of <<chord, generator after the draws>>.
RECURSIVE possible_sample_chord(_)
possible_sample_chord(r) ==
    LET entries == 1..Len(chords_with_possible_probs)
        accepted == { k \in entries : gen_f64_below(r, chords_with_possible_probs[k][2]) } IN
    { <<chords_with_possible_probs[k][1], rng_step(r)>> : k \in accepted }
    \cup (IF accepted = entries THEN {} ELSE possible_sample_chord(rng_step(r)))

\* `(0..binom_n).map(|_| if rng.gen() < binom_p {1} else {0}).sum()`: <<sum, generator>>
RECURSIVE binom(_, _)
binom(n, r) ==
    IF n = 0 THEN <<0, r>>
    ELSE LET rest == binom(n - 1, rng_step(r)) IN
         <<(IF gen_f64_below(r, 5) THEN 1 ELSE 0) + rest[1], rest[2]>>

most_uncertain_idx ==
    LET sorted == chords_with_possible_probs
        at == { k \in 1..Len(sorted) : sorted[k][2] >= 5 } IN
    IF at = {} THEN Len(sorted) - 1
    ELSE (CHOOSE k \in at : \A l \in at : k <= l) - 1

\* MostUncertainPossibilityChordSampler::sample_chord: <<chord, generator>>
RECURSIVE most_uncertain_sample_chord(_)
most_uncertain_sample_chord(r) ==
    LET m == Len(chords_with_possible_probs)
        binom_n == 2 * (m - 1)
        binom_shift == m - 1 - most_uncertain_idx
        drawn == binom(binom_n, r)
        sampled_idx_raw == drawn[1] - binom_shift IN
    IF sampled_idx_raw >= 0 /\ sampled_idx_raw < m
    THEN <<chords_with_possible_probs[sampled_idx_raw + 1][1], drawn[2]>>
    ELSE most_uncertain_sample_chord(drawn[2])

SamplerKinds == { "TwiddlerExponentialSampler", "PossibleChordSampler",
                  "MostUncertainPossibilityChordSampler" }

\* `S::new(rng, info)`; the model keeps the state the generator was given in
S_new(kind, seed) == [kind |-> kind, seed |-> seed, rng |-> seed]

\* `chord_sampler.sample_chord()`: the set of <<chord, sampler after the call>>
sample_chord(sampler) ==
    LET outs == IF sampler.kind = "TwiddlerExponentialSampler"
                THEN { exponential_sample_chord(sampler.rng) }
                ELSE IF sampler.kind = "PossibleChordSampler"
                THEN possible_sample_chord(sampler.rng)
                ELSE { most_uncertain_sample_chord(sampler.rng) } IN
    { <<out[1], [sampler EXCEPT !.rng = out[2]]>> : out \in outs }

\* one iteration of `while chords.len() < ok_strings.len()`, with the sampler in arg
SampleChordSeeded ==
    /\ pc = "sample"
    /\ Len(chords) < Len(ok_strings)
    /\ \E out \in sample_chord(arg) :
         /\ chords' = push_if_new(chords, out[1])
         /\ arg' = out[2]
    /\ UNCHANGED <<ret, pc, codeVars, trialVars, alignVars, sessVars>>

\* the binder is run again on a sampler constructed from a generator in the
\* same initial state; ret keeps the vocabulary of the first run
SecondRun ==
    /\ pc = "built"
    /\ ~ret.some
    /\ ret' = [some |-> TRUE, val |-> vocab]
    /\ arg' = S_new(arg.kind, arg.seed)
    /\ pc' = "create_strings"
    /\ root' = {}
    /\ node_queue' = << <<>> >>
    /\ multichar_count' = 0
    /\ current_node_str' = <<>>
    /\ idx' = 0
    /\ ok_strings' = <<>>
    /\ chords' = <<>>
    /\ vocab' = <<>>
    /\ code_tree' = {}
    /\ UNCHANGED <<usb_hid_ranges, max_chords, max_multichar_chords, chord_sampler,
                   trialVars, alignVars, sessVars>>

InitBind ==
    /\ usb_hid_ranges \in ScaledRanges
    /\ max_chords \in 1..MaxCap
    /\ max_multichar_chords = MAX_MULTICHAR_CHORDS
    /\ \E kind \in SamplerKinds, seed \in 0..MaxSeed : arg = S_new(kind, seed)
    /\ chord_sampler = { out[1] : out \in UNION { sample_chord(S_new(arg.kind, r)) : r \in RngStates } }
    /\ ret = None
    /\ InitCode /\ NoTrial /\ NoAlign /\ NoSession

NextBind == Dequeue \/ AddChild \/ QueueToVec \/ SampleChordSeeded \/ ReturnCode \/ SecondRun

SpecBind == InitBind /\ [][NextBind]_vars

\* ------------------------------------------------------------------ the code builder with the constants of twiddler.rs
InitFull ==
    /\ usb_hid_ranges = USB_HID_RANGES
    /\ max_chords = MAX_CHORDS
    /\ max_multichar_chords = MAX_MULTICHAR_CHORDS
    /\ chord_sampler = {}
    /\ InitCode /\ NoTrial /\ NoAlign /\ NoSession /\ NoCall

NextFull == Dequeue \/ AddChild \/ QueueToVec

\* get_code is sequential code: a step that can be taken is taken
SpecFull == InitFull /\ [][NextFull]_vars /\ WF_vars(NextFull)

\* ------------------------------------------------------------------ TrialResults::save and TrialResults::load
\* serde's reading of Chord, TrialData and TrialResults
chord_from_json(j) == j.keys

\* (mutant of trial_from_json: an input that is not Ok is read as an empty Ok)
trial_from_json_lenient(j) ==
    [chord_pair    |-> <<chord_from_json(j.chord_pair[1]), chord_from_json(j.chord_pair[2])>>,
     n_repetitions |-> j.n_repetitions,
     input         |-> IF "Ok" \in DOMAIN j.input
                       THEN Ok([k \in 1..Len(j.input.Ok) |-> chord_from_json(j.input.Ok[k])])
                       ELSE Ok(<<>>)]

trial_from_json(j) ==
    [chord_pair    |-> <<chord_from_json(j.chord_pair[1]), chord_from_json(j.chord_pair[2])>>,
     n_repetitions |-> j.n_repetitions,
     input         |-> IF "Ok" \in DOMAIN j.input
                       THEN Ok([k \in 1..Len(j.input.Ok) |-> chord_from_json(j.input.Ok[k])])
                       ELSE Err(j.input.Err)]

from_json(j) == [k \in 1..Len(j.data) |-> trial_from_json(j.data[k])]

\* the trials the tests build their demo results from (make_demo_trial)
DemoChords == { chord_of(<<"L1">>), chord_of(<<"Z0", "M1">>) }
DemoTrials ==
    [chord_pair    : { <<chord_of(<<"L1">>), chord_of(<<"Z0", "M1">>)>>,
                       <<chord_of(<<"L1">>), chord_of(<<"L1">>)>> },
     n_repetitions : { 1, N_REPETITIONS_PER_TRIAL },
     input         : { Ok(<<>>), Ok(<<chord_of(<<"L1">>), chord_of(<<"Z0", "M1">>)>>),
                       Err("Impossible") }]

insert(v, at, x) == SubSeq(v, 1, at - 1) \o <<x>> \o SubSeq(v, at, Len(v))
remove(v, at) == SubSeq(v, 1, at - 1) \o SubSeq(v, at + 1, Len(v))
flip(chord, k) == [chord EXCEPT ![k] = ~chord[k]]

\* make_demo_data: `demo_results.data.push(make_demo_trial(..))`
PushDemo ==
    /\ pc = "call"
    /\ Len(results) < MaxResults
    /\ \E t \in DemoTrials : results' = push(results, t)
    /\ UNCHANGED <<callVars, pc, chords, codeVars, trialVars, alignVars, input_line,
                   input_at, parsed_chords, stdin_eof, returned, file, shown, script>>

\* `demo_results.save(&results_path)`
SaveDemo ==
    /\ pc = "call"
    /\ file' = Some(to_json(results))
    /\ pc' = "save"
    /\ UNCHANGED <<callVars, chords, codeVars, trialVars, alignVars, results, input_line,
                   input_at, parsed_chords, stdin_eof, returned, shown, script>>

\* `TrialResults::load(&results_path)`
LoadDemo ==
    /\ pc = "save"
    /\ ret' = from_json(file.val)
    /\ pc' = "load"
    /\ UNCHANGED <<arg, chords, codeVars, trialVars, alignVars, sessVars>>

\* an edit of demo_results, named in arg
Edited(name, data) ==
    /\ pc = "load"
    /\ results' = data
    /\ arg' = name
    /\ pc' = "edited"
    /\ UNCHANGED <<ret, chords, codeVars, trialVars, alignVars, input_line, input_at,
                   parsed_chords, stdin_eof, returned, file, shown, script>>

AddTrial ==
    \E at \in 1..(Len(results) + 1), t \in DemoTrials :
        Edited("add_trial", insert(results, at, t))

RemoveTrial ==
    \E at \in 1..Len(results) : Edited("remove_trial", remove(results, at))

FlipKey ==
    \E at \in 1..Len(results), c \in 1..2, k \in 1..TwiddlerKey_COUNT :
        Edited("flip_key",
               [results EXCEPT ![at].chord_pair[c] = flip(results[at].chord_pair[c], k)])

FlipInputKey ==
    \E at \in 1..Len(results), k \in 1..TwiddlerKey_COUNT :
        /\ results[at].input.ok
        /\ \E c \in 1..Len(results[at].input.val) :
             Edited("flip_input_key",
                    [results EXCEPT ![at].input.val[c] = flip(results[at].input.val[c], k)])

ChangeRepetitions ==
    \E at \in 1..Len(results), n \in {0, 1, N_REPETITIONS_PER_TRIAL, N_REPETITIONS_PER_TRIAL + 1} :
        /\ n # results[at].n_repetitions
        /\ Edited("change_repetitions", [results EXCEPT ![at].n_repetitions = n])

ToggleInputError ==
    \E at \in 1..Len(results) :
        Edited("toggle_input_error",
               [results EXCEPT ![at].input = IF results[at].input.ok
                                             THEN Err("Impossible") ELSE Ok(<<>>)])

ChangeInput ==
    \E at \in 1..Len(results) :
        /\ results[at].input.ok
        /\ LET v == results[at].input.val IN
           \/ \E i \in 1..(Len(v) + 1), c \in DemoChords :
                Edited("change_input", [results EXCEPT ![at].input = Ok(insert(v, i, c))])
           \/ \E i \in 1..Len(v) :
                Edited("change_input", [results EXCEPT ![at].input = Ok(remove(v, i))])

InitJson ==
    /\ pc = "call"
    /\ usb_hid_ranges = USB_HID_RANGES
    /\ Idle

NextJson == PushDemo \/ SaveDemo \/ LoadDemo \/ AddTrial \/ RemoveTrial \/ FlipKey
            \/ FlipInputKey \/ ChangeRepetitions \/ ToggleInputError \/ ChangeInput

SpecJson == InitJson /\ [][NextJson]_vars

\* ------------------------------------------------------------------ the code builder alone, with caps that let it dequeue longer words
InitBuild ==
    /\ usb_hid_ranges \in ScaledRanges
    /\ max_chords \in 1..MaxDeepCap
    /\ max_multichar_chords \in 1..MaxDeepCap
    /\ chord_sampler = {}
    /\ InitCode /\ NoTrial /\ NoAlign /\ NoSession /\ NoCall

NextBuild == Dequeue \/ AddChild \/ QueueToVec

SpecBuild == InitBuild /\ [][NextBuild]_vars

\* ------------------------------------------------------------------ align on a long typed sequence
\* `expected_chords`: the displayed pair repeated N_REPETITIONS_PER_TRIAL times
expected_chords == [k \in 1..(2 * N_REPETITIONS_PER_TRIAL) |-> IF k % 2 = 1 THEN 1 ELSE 2]

\* a typed line of n chords, the first chord of the pair and a third chord in turn
LongTyped(n) == [k \in 1..n |-> IF k % 2 = 1 THEN 1 ELSE 3]

\* an addition on u8 in the loop body for (i, j) exceeds 255
add_overflows(P, Q, mat, i, j) ==
    IF i = 0 \/ j = 0 THEN FALSE
    ELSE IF P[i] = Q[j] THEN \E c \in mat[<<i - 1, j - 1>>] : c[1] + 1 > 255
    ELSE \/ \E c \in mat[<<i - 1, j>>] : c[2] + 1 > 255
         \/ \E c \in mat[<<i, j - 1>>] : ~collapse(Q, j) /\ c[2] + 1 > 255
         \/ \E c \in mat[<<i - 1, j - 1>>] : c[2] + 1 > 255

\* a build with overflow checks panics on such an addition; a build without
\* them wraps (AlignCell)
AlignPanic ==
    /\ pc = "align_loop"
    /\ ai <= Len(seq_predicted)
    /\ add_overflows(seq_predicted, seq_corrupted, nw_matrix, ai, aj)
    /\ pc' = "panic"
    /\ UNCHANGED <<callVars, chords, codeVars, trialVars, seq_predicted, seq_corrupted,
                   nw_matrix, ai, aj, align_out, sessVars>>

InitLong ==
    /\ pc = "align_loop"
    /\ seq_predicted = expected_chords
    /\ seq_corrupted \in { LongTyped(n) : n \in {254, 255, 256} }
    /\ nw_matrix = empty_matrix(seq_predicted, seq_corrupted)
    /\ ai = 0 /\ aj = 0
    /\ align_out = None
    /\ NoCode /\ NoTrial /\ NoSession /\ NoCall

NextLong == AlignCell \/ AlignPanic \/ AlignReturn

SpecLong == InitLong /\ [][NextLong]_vars

\* ================================================================== claims

\* ------------------------------------------------------------------ C1
\* C1: for the vocabulary and code tree built together by get_code and every
\* sequence of vocabulary entries pressed, parse_trial_string applied to the
\* concatenation of the entries' strings returns exactly the bound chords of
\* that sequence, in press order.
C1_DecodeRecoversPresses ==
    pc = "parsed" =>
        parse_out = Ok([k \in 1..Len(pressed) |-> vocab[pressed[k]][1]])

\* a trial of two different chords, one bound to a word of two or more characters, was decoded
C1_Witness ==
    /\ pc = "parsed"
    /\ Len(pressed) = 2
    /\ pressed[1] # pressed[2]
    /\ Len(vocab[pressed[1]][2]) >= 2
    /\ Len(vocab[pressed[2]][2]) = 1
    /\ parse_out.ok

\* ------------------------------------------------------------------ C2
PrefixFree(q) ==
    \A a, b \in 1..Len(q) : a # b => ~IsPrefix(q[a], q[b])

\* C2: at every point where the expansion loop of get_code can halt (after any
\* enqueue, also in the middle of a node's children) the words left in the queue
\* are pairwise distinct and none is a proper prefix of another.
C2_QueuePrefixFree ==
    pc \in {"for_idx", "create_strings", "halted"} => PrefixFree(node_queue)

\* the loop halted in the middle of a node's children with words of both lengths queued
C2_Witness ==
    /\ pc = "halted"
    /\ idx + 1 < USB_HID_COUNT
    /\ \E a, b \in 1..Len(node_queue) : Len(node_queue[a]) = 1 /\ Len(node_queue[b]) = 2

\* ------------------------------------------------------------------ C3
MulticharWords(q) == Cardinality({ k \in 1..Len(q) : Len(q[k]) >= 2 })

\* C3: when the expansion loop has halted, the queue holds at most MAX_CHORDS
\* words and at most MAX_MULTICHAR_CHORDS words of length >= 2, and one of the
\* two bounds is met with equality or the queue holds exactly 2H words.
C3_CapsHonoured ==
    pc = "halted" =>
        /\ Len(node_queue) <= max_chords
        /\ MulticharWords(node_queue) <= max_multichar_chords
        /\ \/ Len(node_queue) = max_chords
           \/ MulticharWords(node_queue) = max_multichar_chords
           \/ Len(node_queue) = USB_HID_COUNT

\* the loop halted on the multichar cap alone, after the first row
C3_Witness ==
    /\ pc = "halted"
    /\ MulticharWords(node_queue) = max_multichar_chords
    /\ Len(node_queue) < max_chords
    /\ Len(node_queue) > USB_HID_COUNT

\* ------------------------------------------------------------------ C4
\* The scores (correct, incorrect) of all monotone paths of Vert/Horz/Diag steps
\* from (0, 0) to (i, j): a Diag step on equal elements counts one correct, every
\* other step one incorrect, except the Horz steps the collapse exempts.
path_cell(P, Q, mat, i, j) ==
    IF i = 0 /\ j = 0 THEN { <<0, 0>> }
    ELSE (IF i > 0 THEN { <<c[1], c[2] + 1>> : c \in mat[<<i - 1, j>>] } ELSE {})
         \cup
         (IF j > 0
          THEN { <<c[1], IF collapse(Q, j) THEN c[2] ELSE c[2] + 1>> : c \in mat[<<i, j - 1>>] }
          ELSE {})
         \cup
         (IF i > 0 /\ j > 0
          THEN { IF P[i] = Q[j] THEN <<c[1] + 1, c[2]>> ELSE <<c[1], c[2] + 1>> :
                    c \in mat[<<i - 1, j - 1>>] }
          ELSE {})

RECURSIVE path_fill(_, _, _, _, _)
path_fill(P, Q, mat, i, j) ==
    IF i > Len(P) THEN mat
    ELSE LET filled == [mat EXCEPT ![<<i, j>>] = path_cell(P, Q, mat, i, j)]
         IN  IF j < Len(Q) THEN path_fill(P, Q, filled, i, j + 1)
             ELSE path_fill(P, Q, filled, i + 1, 0)

PathScores(P, Q) == path_fill(P, Q, empty_matrix(P, Q), 0, 0)[<<Len(P), Len(Q)>>]

\* C4: the pair returned by align maximizes correct/(correct+incorrect) over all
\* alignments of P and Q: no alignment path has a strictly higher ratio.
C4_AlignMaximizesRatio ==
    pc = "align_done" =>
        \A s \in PathScores(seq_predicted, seq_corrupted) :
            s[1] * (align_out[1] + align_out[2]) <= align_out[1] * (s[1] + s[2])

\* ------------------------------------------------------------------ C5
\* C5: for every sequence X, align(X, X) returns (|X|, 0), also when X contains
\* consecutive repeated elements.
C5_AlignIdentical ==
    (pc = "align_done" /\ seq_predicted = seq_corrupted) =>
        align_out = <<Len(seq_predicted), 0>>

\* a sequence of three elements starting with a repeated element was aligned with itself
C5_Witness ==
    /\ pc = "align_done"
    /\ seq_predicted = seq_corrupted
    /\ Len(seq_predicted) = 3
    /\ seq_predicted[1] = seq_predicted[2]
    /\ align_out = <<3, 0>>

\* ------------------------------------------------------------------ C6
\* Q with k extra copies of Q[j] inserted next to position j
InsertCopies(Q, j, k) ==
    SubSeq(Q, 1, j) \o [n \in 1..k |-> Q[j]] \o SubSeq(Q, j + 1, Len(Q))

\* C6: with consecutive insertions counted once, for every P, every Q, every
\* position j of Q and every k >= 1, inserting k extra copies of Q[j] next to
\* position j leaves the (correct, incorrect) pair returned by align unchanged.
C6_RepeatedInsertionsIgnored ==
    pc = "align_done" =>
        \A j \in 1..Len(seq_corrupted) : \A k \in 1..MaxCopies :
            align(seq_predicted, InsertCopies(seq_corrupted, j, k)) = {align_out}

\* ------------------------------------------------------------------ C7
\* C7: a session whose input lines are GO, a typed line that decodes, Y, IMP,
\* QUIT ends with a result list of exactly 2 records: the first has outcome
\* Ok(decoded sequence of the typed line) for the first displayed pair, the
\* second has outcome Impossible for the second displayed pair.
C7_ScenarioTwoRecords ==
    script.n = 5 =>
        /\ pc \in {"Terminate", "saved", "save_error"}
        /\ returned = Ok(results)
        /\ Len(results) = 2
        /\ results[1] =
             [chord_pair |-> shown[1], n_repetitions |-> N_REPETITIONS_PER_TRIAL,
              input |-> Ok(parse_trial_string(code_tree, vocab,
                                              strip_last(script.typed.val)).val)]
        /\ results[2] =
             [chord_pair |-> shown[2], n_repetitions |-> N_REPETITIONS_PER_TRIAL,
              input |-> Err("Impossible")]

\* the scenario ran to its end with two different pairs displayed and a chord typed
C7_Witness ==
    /\ script.n = 5
    /\ pc = "Terminate"
    /\ shown[1] # shown[2]
    /\ shown[1][1] # shown[1][2]
    /\ Len(results[1].input.val) = 1

\* ------------------------------------------------------------------ C8
DecodeFailed(line) == ~parse_trial_string(code_tree, vocab, strip_last(line)).ok

\* C8: if decoding the typed line fails in the Timing state, the session returns
\* to the command prompt with the same chord pair still current and the result
\* list exactly as it was before the GO; nothing is recorded for the attempt.
C8_DecodeFailureIsLocal ==
    [][ /\ (pc = "AwaitCommand" /\ pc' = "Timing")
            => (results' = results /\ chords' = chords)
        /\ (pc = "Timing" /\ pc' \notin {"io_error", "panic"} /\ DecodeFailed(input_line'))
            => (pc' = "AwaitCommand" /\ chords' = chords /\ results' = results)
      ]_vars

\* a typed line that stops inside a word was just rejected, with a record already accepted
C8_Witness ==
    /\ pc = "AwaitCommand"
    /\ input_at = "Timing"
    /\ input_line = Line(<<"a">>, TRUE)
    /\ Len(results) = 1
    /\ chords[1] # chords[2]

\* ------------------------------------------------------------------ C9
\* C9: the result list only ever grows by appending exactly one record at the
\* end, and only on Y in the Accept state (an Ok record) or IMP at the command
\* prompt (an Impossible record); every earlier record keeps its position and
\* value, and save writes the records in that same order.  SKIP, N,
\* unrecognised input and decode failures leave the list unchanged.
C9_ResultsAppendOnly ==
    [][ /\ IF pc = "Accept" /\ pc' # "io_error" /\ input_line' = YES
           THEN results' = Append(results,
                    [chord_pair |-> chords, n_repetitions |-> N_REPETITIONS_PER_TRIAL,
                     input |-> Ok(parsed_chords)])
           ELSE IF pc = "AwaitCommand" /\ pc' # "io_error" /\ input_line' = IMP
           THEN results' = Append(results,
                    [chord_pair |-> chords, n_repetitions |-> N_REPETITIONS_PER_TRIAL,
                     input |-> Err("Impossible")])
           ELSE results' = results
        /\ pc' = "saved" =>
             /\ file'.some
             /\ Len(file'.val.data) = Len(results')
             /\ \A k \in 1..Len(results') : file'.val.data[k] = trial_json(results'[k])
      ]_vars

\* an Impossible record and then an Ok record were accepted and saved
C9_Witness ==
    /\ pc = "saved"
    /\ Len(results) = 2
    /\ ~results[1].input.ok
    /\ results[2].input.ok
    /\ results[1].chord_pair # results[2].chord_pair

\* ------------------------------------------------------------------ C10
\* the saved entry carries the record's pair, repetition count and outcome
Persisted(entry, rec) ==
    /\ entry.chord_pair = << [keys |-> rec.chord_pair[1]], [keys |-> rec.chord_pair[2]] >>
    /\ entry.n_repetitions = rec.n_repetitions
    /\ IF rec.input.ok
       THEN entry.input = [Ok |-> [k \in 1..Len(rec.input.val) |-> [keys |-> rec.input.val[k]]]]
       ELSE entry.input = [Err |-> rec.input.err]

\* C10: when QUIT is read at the command prompt, gather_data returns exactly the
\* records accepted so far and gather_and_save_data then persists that same
\* list; QUIT is the only command that ends the session.
C10_QuitReturnsAndSaves ==
    [][ /\ (pc = "AwaitCommand" /\ pc' # "io_error" /\ input_line' = QUIT)
            => (pc' = "Terminate" /\ returned' = Ok(results) /\ results' = results)
        /\ (pc # "Terminate" /\ pc' = "Terminate")
            => (pc = "AwaitCommand" /\ input_line' = QUIT)
        /\ pc' = "saved"
            => /\ pc = "Terminate"
               /\ returned' = Ok(results')
               /\ file'.some
               /\ Len(file'.val.data) = Len(results')
               /\ \A k \in 1..Len(results') : Persisted(file'.val.data[k], results'[k])
      ]_vars

\* QUIT was read after one typed trial was accepted, and the list was saved
C10_Witness ==
    /\ pc = "saved"
    /\ input_line = QUIT
    /\ Len(results) = 1
    /\ results[1].input.ok
    /\ file.val.data[1].input = [Ok |-> << chord_json(results[1].input.val[1]) >>]

\* ------------------------------------------------------------------ C11
\* C11: if a read from standard input fails with an I/O error in the middle of
\* a session, the session aborts and the records accepted before the error are
\* persisted to the results file.
C11_IoErrorPersists ==
    (pc = "io_error" /\ results # <<>>) =>
        /\ file.some
        /\ Len(file.val.data) = Len(results)
        /\ \A k \in 1..Len(results) : Persisted(file.val.data[k], results[k])

\* ------------------------------------------------------------------ C12
TruncatedInput == Err("value string ended in the middle of a word")

\* the node reached by reading idxs from `at`, starting again at the root after every leaf
RECURSIVE NodeAfter(_, _, _)
NodeAfter(tree, at, idxs) ==
    IF idxs = <<>> THEN at
    ELSE LET nxt == Append(at, Head(idxs))
         IN  NodeAfter(tree, IF nxt \in tree THEN nxt ELSE <<>>, Tail(idxs))

\* the index stream ends after a non-empty proper prefix of a code word
EndsInsideWord(tree, idxs) == NodeAfter(tree, <<>>, idxs) # <<>>

\* C12: parse_trial_string returns the error "value string ended in the middle
\* of a word", and no chord list, whenever the index stream ends at an internal
\* node of the code tree; it does not report this error when the stream ends
\* exactly at a leaf.
C12_TruncatedInput ==
    (pc = "parsed" /\ chars_to_idxs(typed_string).ok) =>
        LET idxs == chars_to_idxs(typed_string).val
        IN  (parse_out = TruncatedInput) <=> EndsInsideWord(code_tree, idxs)

\* the last character was removed from two vocabulary strings typed one after
\* the other, the second of length >= 2
C12_Witness ==
    /\ pc = "parsed"
    /\ parse_out = TruncatedInput
    /\ \E k, m \in 1..Len(vocab) :
         /\ Len(vocab[m][2]) >= 2
         /\ typed_string = Front(vocab[k][2] \o vocab[m][2])
         /\ Len(typed_string) >= 2

\* ------------------------------------------------------------------ C13
UnknownWord == Err("could not find chord for word")

\* the code words of an index stream that ends at a leaf, in order
RECURSIVE WordsOf(_, _, _)
WordsOf(tree, word, idxs) ==
    IF idxs = <<>> THEN <<>>
    ELSE LET nxt == Append(word, Head(idxs))
         IN  IF nxt \in tree THEN WordsOf(tree, nxt, Tail(idxs))
             ELSE <<nxt>> \o WordsOf(tree, <<>>, Tail(idxs))

Bound(vcb, word) == \E k \in 1..Len(vcb) : vcb[k][2] = idxs_to_string(word)

\* C13: parse_trial_string returns an error and no partial chord list whenever
\* at least one decoded code word has no vocabulary entry with that string,
\* including leaves of the code tree that were never enqueued.
C13_UnknownWord ==
    (pc = "parsed" /\ chars_to_idxs(typed_string).ok) =>
        LET idxs  == chars_to_idxs(typed_string).val
            words == WordsOf(code_tree, <<>>, idxs)
        IN  IF \E k \in 1..Len(words) : ~Bound(vocab, words[k])
            THEN /\ ~parse_out.ok
                 /\ ~EndsInsideWord(code_tree, idxs) => parse_out = UnknownWord
            ELSE ~EndsInsideWord(code_tree, idxs)
                    => (parse_out.ok /\ Len(parse_out.val) = Len(words))

\* a bound word was typed and then a leaf whose parent's expansion was cut short
C13_Witness ==
    /\ pc = "parsed"
    /\ parse_out = UnknownWord
    /\ LET words == WordsOf(code_tree, <<>>, chars_to_idxs(typed_string).val)
       IN  /\ Len(words) = 2
           /\ Bound(vocab, words[1])
           /\ ~Bound(vocab, words[2])
           /\ Front(words[2]) \in code_tree

\* ------------------------------------------------------------------ C14
\* usb lies in one of the three declared ranges (lower end included, upper end not)
InRange(usb) == \E k \in 1..3 : usb_hid_ranges[k][1] <= usb /\ usb < usb_hid_ranges[k][2]

\* C14: idx_to_usb and usb_to_idx are mutually inverse bijections between the
\* indices [0, 2H) and the pairs (shifted, usb) with usb inside one of the
\* three HID ranges, and usb_to_idx returns an out-of-range error exactly for
\* the usb codes outside all three ranges.
C14_IdxUsbInverse ==
    /\ pc = "idx_to_usb" => (ret.ok /\ ret.val[1] \in BOOLEAN /\ InRange(ret.val[2]))
    /\ pc = "idx_round_trip" => ret = Ok(arg)
    /\ pc = "usb_to_idx" =>
         /\ ret.ok <=> InRange(arg[2])
         /\ ret.ok => ret.val \in 0..(USB_HID_COUNT - 1)
         /\ ~ret.ok => ret = Err("usb code out of range")
    /\ pc = "usb_round_trip" => ret = Ok(arg)

\* the last code of the third range, shifted, went to an index and back
C14_Witness ==
    /\ pc = "usb_round_trip"
    /\ usb_hid_ranges = USB_HID_RANGES
    /\ arg = <<TRUE, 56>>
    /\ ret = Ok(arg)

\* ------------------------------------------------------------------ C15
KeysOf(chord) == { TwiddlerKey[k] : k \in { n \in 1..Len(TwiddlerKey) : chord[n] } }
ThumbKeys == {"Z0", "L0", "M0", "R0"}
ReservedKeySets ==
    { {"Z0", "R0", k} : k \in {"R1", "R2", "R3", "R4", "M1", "M2", "M3", "M4"} }

\* C15: for every chord over the 16 keys, is_valid holds exactly when the chord
\* contains at least one main-row (non-thumb) key and is not one of the 8
\* reserved chords; so the empty chord, thumb-only chords and reserved chords
\* are invalid, and a reserved chord with one further key added is valid.
C15_IsValid ==
    pc = "is_valid" =>
        /\ ret <=> (KeysOf(arg) \ ThumbKeys # {} /\ KeysOf(arg) \notin ReservedKeySets)
        /\ KeysOf(arg) \subseteq ThumbKeys => ~ret
        /\ KeysOf(arg) \in ReservedKeySets => ~ret
        /\ (\E r \in ReservedKeySets : r \subseteq KeysOf(arg) /\ Cardinality(KeysOf(arg) \ r) = 1)
              => ret

\* a reserved chord with one thumb key added was found valid
C15_Witness ==
    /\ pc = "is_valid"
    /\ KeysOf(arg) = {"Z0", "R0", "R1", "L0"}
    /\ ret

\* ------------------------------------------------------------------ C16
\* C16: the vocabulary returned by get_code has exactly one entry per queued
\* code word, its chords are pairwise distinct, its strings are pairwise
\* distinct, and every chord is valid whenever the sampler returns only valid
\* chords; so lookup_chord and lookup_string are inverse to each other on the
\* vocabulary entries.
C16_VocabularyIsBijection ==
    pc \in {"built", "parsed"} =>
        /\ Len(vocab) = Len(ok_strings)
        /\ \A k \in 1..Len(vocab) : vocab[k][2] = ok_strings[k]
        /\ \A a, b \in 1..Len(vocab) :
              a # b => (vocab[a][1] # vocab[b][1] /\ vocab[a][2] # vocab[b][2])
        /\ (\A c \in chord_sampler : is_valid(c))
              => \A k \in 1..Len(vocab) : is_valid(vocab[k][1])
        /\ \A k \in 1..Len(vocab) :
              /\ lookup_string(vocab, vocab[k][2]) = Some(vocab[k][1])
              /\ lookup_chord(vocab, vocab[k][1]) = Some(vocab[k][2])

\* a vocabulary of three entries with words of both lengths, from a valid sampler
C16_Witness ==
    /\ pc = "built"
    /\ Len(vocab) = 3
    /\ \A c \in chord_sampler : is_valid(c)
    /\ \E a, b \in 1..Len(vocab) : Len(vocab[a][2]) = 1 /\ Len(vocab[b][2]) = 2

\* ------------------------------------------------------------------ C17
Disjoint(P, Q) == Range(P) \cap Range(Q) = {}
Max(a, b) == IF a >= b THEN a ELSE b
NoRepeat(Q) == \A j \in 1..(Len(Q) - 1) : Q[j] # Q[j + 1]

\* C17: for all sequences P and Q that share no element, align(P, Q) returns
\* (0, |P| + |Q|).
C17_DisjointAllIncorrect ==
    (pc = "align_done" /\ Disjoint(seq_predicted, seq_corrupted)) =>
        align_out = <<0, Len(seq_predicted) + Len(seq_corrupted)>>

\* C17, as the code has it: for all sequences P and Q that share no element,
\* align(P, Q) returns no correct element and at most max(|P|, |Q|) incorrect
\* ones, exactly max(|P|, |Q|) when Q has no two equal neighbours: an element
\* of P set against a different element of Q is counted as one error, not two.
C17_DisjointNoneCorrect ==
    (pc = "align_done" /\ Disjoint(seq_predicted, seq_corrupted)) =>
        /\ align_out[1] = 0
        /\ align_out[2] <= Max(Len(seq_predicted), Len(seq_corrupted))
        /\ NoRepeat(seq_corrupted) =>
              align_out[2] = Max(Len(seq_predicted), Len(seq_corrupted))

\* two disjoint sequences of two and three different elements were aligned
C17_Witness ==
    /\ pc = "align_done"
    /\ seq_predicted = <<1, 1>>
    /\ seq_corrupted = <<2, 3, 2>>
    /\ align_out = <<0, 3>>

\* ------------------------------------------------------------------ C18
\* C18: for all sequences P and Q, align(reverse(P), reverse(Q)) returns the
\* same (correct, incorrect) pair as align(P, Q).
C18_ReversalInvariant ==
    pc = "align_done" =>
        align(Reverse(seq_predicted), Reverse(seq_corrupted)) = {align_out}

\* ------------------------------------------------------------------ C19
\* C19: for all sequences P and Q, the pair (correct, incorrect) returned by
\* align satisfies correct + incorrect >= max(|P|, |Q|).
C19_TotalAtLeastLonger ==
    pc = "align_done" =>
        align_out[1] + align_out[2] >= Max(Len(seq_predicted), Len(seq_corrupted))

\* C19, as the code has it: correct + incorrect >= |P| for all P and Q, and
\* correct + incorrect >= max(|P|, |Q|) when Q has no two equal neighbouring
\* elements; repeated insertions that are counted once lower the sum below |Q|.
C19_TotalAtLeastPredicted ==
    pc = "align_done" =>
        /\ align_out[1] + align_out[2] >= Len(seq_predicted)
        /\ NoRepeat(seq_corrupted) =>
              align_out[1] + align_out[2] >= Max(Len(seq_predicted), Len(seq_corrupted))

\* a typed sequence longer than the predicted one, without repeats, was aligned
C19_Witness ==
    /\ pc = "align_done"
    /\ seq_predicted = <<1, 2>>
    /\ seq_corrupted = <<2, 1, 3>>
    /\ align_out[1] >= 1
    /\ align_out[1] + align_out[2] >= 3

\* ------------------------------------------------------------------ C20
\* C20: two runs of the binder with the same code words and samplers
\* constructed from generators in the same initial state produce the same
\* vocabulary, for every sampler variant; and the k-th string of the queue is
\* paired with the k-th distinct chord drawn.
C20_SameSeedSameVocabulary ==
    pc = "built" =>
        /\ ret.some => vocab = ret.val
        /\ Len(vocab) = Len(ok_strings)
        /\ \A k \in 1..Len(vocab) : vocab[k] = <<chords[k], ok_strings[k]>>

\* ------------------------------------------------------------------ C21
\* C21: with MAX_CHORDS = 1020, MAX_MULTICHAR_CHORDS = 256 and the alphabet of
\* USB_HID_COUNT characters derived from the three HID ranges, the expansion
\* loop of get_code terminates, and when it stops the multi-character count has
\* just reached 256 while the queue is still shorter than 1020 words and holds
\* at least USB_HID_COUNT words.
C21_StopsByMulticharCap ==
    /\ <>(pc = "halted")
    /\ [](pc = "halted" =>
            /\ multichar_count = MAX_MULTICHAR_CHORDS
            /\ Len(node_queue) < MAX_CHORDS
            /\ Len(node_queue) >= USB_HID_COUNT)

\* the loop has stopped in the third expansion of a one-character word
C21_Witness ==
    /\ pc = "halted"
    /\ usb_hid_ranges = USB_HID_RANGES
    /\ USB_HID_COUNT = 94
    /\ Len(current_node_str) = 1
    /\ Len(node_queue) = 347
    /\ multichar_count = 256

\* ------------------------------------------------------------------ C22
\* C22: for every TrialResults value r, the value loaded from the file r was
\* saved to is equal to r, and it is unequal to r after a trial was inserted or
\* removed, a key of a chord was flipped, an n_repetitions was changed, an input
\* was switched between Ok and Impossible, or a chord was inserted in or
\* deleted from an Ok input.
C22_RoundTripDetectsEdits ==
    /\ pc = "load" => ret = results
    /\ pc = "edited" => ret # results

\* an Impossible input of the second of two loaded trials was switched to Ok
C22_Witness ==
    /\ pc = "edited"
    /\ arg = "toggle_input_error"
    /\ Len(ret) = 2
    /\ ~ret[2].input.ok
    /\ results[2].input = Ok(<<>>)
    /\ results[1] = ret[1]

\* ------------------------------------------------------------------ C23
\* the codes of the nodes of the tree whose children are None
TreeLeaves(tree) ==
    IF tree = {} THEN { <<>> }
    ELSE { Append(n, i) : n \in tree, i \in 0..(USB_HID_COUNT - 1) } \ tree

\* an iteration of the inner loop has just ended
AfterInnerIteration ==
    \/ pc = "for_idx" /\ idx > 0
    \/ pc = "create_strings" /\ root # {}
    \/ pc = "halted"

\* the children of the node under expansion that the inner loop has not enqueued
NotYetEnqueued ==
    IF pc = "create_strings" THEN {}
    ELSE { Append(current_node_str, i) :
             i \in (IF pc = "halted" THEN idx + 1 ELSE idx)..(USB_HID_COUNT - 1) }

\* C23, as stated: after each iteration of the inner enqueue loop the queue
\* holds exactly the current leaves of the code tree, and every leaf is
\* reachable from the root by its code.
C23_QueueIsLeafSet ==
    AfterInnerIteration =>
        /\ Range(node_queue) = TreeLeaves(root)
        /\ \A leaf \in TreeLeaves(root) : get_child(root, leaf).some

\* C23, as the code has it: after each iteration of the inner enqueue loop
\* every queued word is the code of a tree leaf, the leaves that are not queued
\* are exactly the children of the node under expansion that the loop has not
\* reached (all children are created before the first is enqueued), and every
\* leaf is reachable from the root by its code.
C23_QueuedWordsAreLeaves ==
    AfterInnerIteration =>
        /\ Range(node_queue) \subseteq TreeLeaves(root)
        /\ TreeLeaves(root) \ Range(node_queue) = NotYetEnqueued
        /\ \A leaf \in TreeLeaves(root) : get_child(root, leaf).some

\* the loop stopped inside the expansion of a one-character word, leaving
\* children of that word in the tree that were never enqueued
C23_Witness ==
    /\ pc = "halted"
    /\ Len(current_node_str) = 1
    /\ idx + 1 < USB_HID_COUNT
    /\ NotYetEnqueued # {}
    /\ \E k \in 1..Len(node_queue) : Len(node_queue[k]) = 2

\* ------------------------------------------------------------------ C24
\* C24: wherever get_code evaluates its stopping condition, multichar_count is
\* the number of queued words of two or more characters; and a word of more
\* than one character is only dequeued while the counter is at least 1, so the
\* decrement never takes the unsigned counter below zero (get_code never panics).
C24_MulticharCountExact ==
    /\ AfterInnerIteration => multichar_count = MulticharWords(node_queue)
    /\ (pc = "create_strings" /\ node_queue # <<>> /\ Len(Head(node_queue)) > 1)
           => multichar_count >= 1
    /\ pc # "panic"

\* a word of two characters was dequeued, the counter was decremented, and the
\* stopping condition was evaluated after a child of it was enqueued
C24_Witness ==
    /\ pc = "for_idx"
    /\ idx > 0
    /\ Len(current_node_str) = 2
    /\ multichar_count >= 2
    /\ multichar_count = MulticharWords(node_queue)

\* ------------------------------------------------------------------ C25
\* candidate b is at least as good as candidate a in both counts and better in one
Dominates(b, a) ==
    /\ b[1] >= a[1]
    /\ b[2] <= a[2]
    /\ (b[1] > a[1] \/ b[2] < a[2])

\* C25: in align, every cell of the matrix holds only mutually non-dominated
\* candidates: no cell holds (c, m) and (c', m') with c' >= c and m' <= m and
\* one of the inequalities strict.
C25_CellsNonDominated ==
    \A cell \in DOMAIN nw_matrix :
        \A a, b \in nw_matrix[cell] : ~Dominates(b, a)

\* ------------------------------------------------------------------ C26
\* the candidates a Vert step from (i-1, j) or a Horz step from (i, j-1) gives at (i, j)
GapCandidates(Q, mat, i, j) ==
    { <<c[1], u8(c[2] + 1), "Vert">> : c \in mat[<<i - 1, j>>] }
    \cup { horz_step(Q, j, c) : c \in mat[<<i, j - 1>>] }

\* C26: at every interior cell of align where the two elements are equal,
\* every candidate a Vert or Horz step gives (scored with the same rules, the
\* collapse of consecutive insertions included) is equalled or dominated by a
\* candidate (c + 1, m) taken from (i-1, j-1).
C26_DiagonalLosesNothing ==
    \A cell \in DOMAIN nw_matrix :
        LET i == cell[1]
            j == cell[2] IN
        (/\ i > 0 /\ j > 0
         /\ nw_matrix[cell] # {}
         /\ seq_predicted[i] = seq_corrupted[j])
            => \A g \in GapCandidates(seq_corrupted, nw_matrix, i, j) :
                  \E d \in nw_matrix[cell] : d[1] >= g[1] /\ d[2] <= g[2]

\* ------------------------------------------------------------------ C27
\* C27: in align, a horizontal transition into a column j >= 2 whose typed
\* element equals the one before it (the last column and the first row
\* included) leaves the incorrect count of the candidate it extends unchanged,
\* and a horizontal transition into any other column adds exactly 1 to it.
C27_HorizontalStepCost ==
    \A cell \in DOMAIN nw_matrix :
        LET i == cell[1]
            j == cell[2] IN
        j >= 1 =>
            \A c \in nw_matrix[cell] :
                c[3] = "Horz" =>
                    \E o \in nw_matrix[<<i, j - 1>>] :
                        /\ o[1] = c[1]
                        /\ c[2] = IF j >= 2 /\ seq_corrupted[j] = seq_corrupted[j - 1]
                                  THEN o[2] ELSE o[2] + 1

\* ------------------------------------------------------------------ C28
Min(a, b) == IF a < b THEN a ELSE b

\* C28: for the expected sequence and any typed sequence the session can pass
\* to align, no u8 computation wraps or overflows: every filled cell (i, j)
\* has i + j <= 255 and its candidates (c, m) have c <= min(i, j) and
\* m <= i + j, and no addition panics.
C28_NoU8Overflow ==
    /\ pc # "panic"
    /\ \A cell \in DOMAIN nw_matrix :
         nw_matrix[cell] # {} =>
            /\ cell[1] + cell[2] <= 255
            /\ \A c \in nw_matrix[cell] :
                 /\ c[1] <= Min(cell[1], cell[2])
                 /\ c[2] <= cell[1] + cell[2]

\* ------------------------------------------------------------------ C29
\* C29: gather_data never panics, whatever lines standard input delivers, the
\* end of input included: the typed line is only sliced when it is not empty,
\* a pair is only chosen from a vocabulary that is not empty, and lookup_chord
\* finds both chords of the displayed pair.
C29_GatherDataNeverPanics ==
    /\ pc # "panic"
    /\ input_at = "Timing" => ~slice_panics(input_line)
    /\ pc \in {"AwaitCommand", "Timing", "Accept"} =>
          /\ vocab # <<>>
          /\ \A k \in 1..2 : lookup_chord(vocab, chords[k]).some

\* ------------------------------------------------------------------ C30
\* from some point on, every line read at the command prompt is QUIT
QuitAtEveryCommandPrompt ==
    <>[][pc = "AwaitCommand" => input_line' = QUIT]_vars

\* a line read as trial input or at the Y/N prompt never ends the session
NoQuitElsewhere ==
    [][(pc = "Timing" \/ pc = "Accept") => pc' # "Terminate"]_vars

\* once standard input is exhausted at the command prompt, the loop stays at
\* the command prompt (or a later read fails)
ExhaustedNeverTerminates ==
    [][(pc = "AwaitCommand" /\ stdin_eof) => pc' \in {"AwaitCommand", "io_error"}]_vars

\* the session has ended: by QUIT, or by the error of a read or a panic
SessionEnded == pc \in {"Terminate", "io_error", "panic"}

====
